---- MODULE Spec2Model ----
(***************************************************************************)
(* Model of the EPD47 panel driver (slint-chat-epd47/src/epd47_idf.rs):    *)
(* the packed 4-bit framebuffer, the bit-banged configuration shift        *)
(* register, the power sequencer and the embedded-graphics bridge.         *)
(*                                                                         *)
(* The panel is scaled down: the real panel is 960x540; the model keeps    *)
(* the width even (as 960 is) and makes the half-width and the height      *)
(* bounds.  Every public method is one action; the hardware effects of the *)
(* last call (GPIO writes, register commits, delays, the update of the     *)
(* powered_on flag) are recorded, in program order, in `trace`.            *)
(***************************************************************************)
EXTENDS Integers, Sequences, FiniteSets, TLC

(* ----------------------------- bounds ---------------------------------- *)
HalfWidth == 1
DISPLAY_HEIGHT == 2
MaxStream == 2
RepairCycles == 2
max_messages == 3
MaxInserted == 6

DISPLAY_WIDTH == 2 * HalfWidth
FRAMEBUFFER_SIZE == (DISPLAY_WIDTH * DISPLAY_HEIGHT) \div 2

(* ------------------------- 8-bit arithmetic ---------------------------- *)
RECURSIVE BitAnd(_, _)
BitAnd(a, b) ==
    IF a = 0 \/ b = 0 THEN 0
    ELSE (IF a % 2 = 1 /\ b % 2 = 1 THEN 1 ELSE 0) + 2 * BitAnd(a \div 2, b \div 2)

RECURSIVE BitOr(_, _)
BitOr(a, b) ==
    IF a = 0 THEN b
    ELSE IF b = 0 THEN a
    ELSE (IF a % 2 = 1 \/ b % 2 = 1 THEN 1 ELSE 0) + 2 * BitOr(a \div 2, b \div 2)

RECURSIVE Pow2(_)
Pow2(n) == IF n = 0 THEN 1 ELSE 2 * Pow2(n - 1)

\* u8 `v << n` : bits shifted out of the byte are lost
Shl8(v, n) == (v * Pow2(n)) % 256
\* u8 `v >> n`
Shr8(v, n) == v \div Pow2(n)

(* --------------------- the three config lines -------------------------- *)
(* hw: levels of cfg_data, cfg_clk, cfg_str, the shift register behind     *)
(* them (a bit is shifted in on a rising clock edge) and its output latch  *)
(* (loaded from the shift register on a rising strobe edge).               *)
Ev(kind, pin, val) == [ev |-> kind, pin |-> pin, val |-> val]

NoFail == 0 - 1

\* One execution of a method: the object's fields, the events so far, the
\* number of GPIO operations that still succeed (NoFail: all), and the
\* error that ended the execution ("Ok": none yet).
Machine(on, fb, hw, fail) ==
    [powered_on |-> on, framebuffer |-> fb, hw |-> hw,
     trace |-> <<>>, fail |-> fail, err |-> "Ok"]

PinEffect(hw, pin, level) ==
    IF pin = "cfg_data" THEN [hw EXCEPT !.cfg_data = level]
    ELSE IF pin = "cfg_clk" THEN
        IF hw.cfg_clk = 0 /\ level = 1
        THEN [hw EXCEPT !.cfg_clk = 1, !.shift = (2 * hw.shift + hw.cfg_data) % 256]
        ELSE [hw EXCEPT !.cfg_clk = level]
    ELSE
        IF hw.cfg_str = 0 /\ level = 1
        THEN [hw EXCEPT !.cfg_str = 1, !.latch = hw.shift]
        ELSE [hw EXCEPT !.cfg_str = level]

\* pin.set_high() / pin.set_low() followed by `.map_err(Epd47Error::Gpio)?`
PinSet(m, pin, level) ==
    IF m.err # "Ok" THEN m
    ELSE IF m.fail = 0 THEN [m EXCEPT !.err = "Gpio"]
    ELSE LET committed == pin = "cfg_str" /\ m.hw.cfg_str = 0 /\ level = 1
             hw1 == PinEffect(m.hw, pin, level)
         IN  [m EXCEPT !.hw = hw1,
                       !.fail = IF @ = NoFail THEN @ ELSE @ - 1,
                       !.trace = IF committed
                                 THEN @ \o <<Ev("gpio", pin, level), Ev("commit", "", hw1.latch)>>
                                 ELSE Append(@, Ev("gpio", pin, level))]

delay_ms(m, ms) ==
    IF m.err # "Ok" THEN m ELSE [m EXCEPT !.trace = Append(@, Ev("delay", "", ms))]

set_powered_on(m, on) ==
    IF m.err # "Ok" THEN m
    ELSE [m EXCEPT !.powered_on = on,
                   !.trace = Append(@, Ev("mark", "", IF on THEN 1 ELSE 0))]

\* the body of `for i in 0..8`, from iteration i on; a failed GPIO
\* operation returns from the function
RECURSIVE ShiftBits(_, _, _)
ShiftBits(m, value, i) ==
    IF i = 8 \/ m.err # "Ok" THEN m
    ELSE LET m1  == PinSet(m, "cfg_clk", 0)
             bit == BitAnd(Shr8(value, 7 - i), 1)
             m2  == PinSet(m1, "cfg_data", IF bit = 1 THEN 1 ELSE 0)
             m3  == PinSet(m2, "cfg_clk", 1)
         IN  ShiftBits(m3, value, i + 1)

\* faulty variant: the bits are shifted out least significant first
RECURSIVE ShiftBitsLsbFirst(_, _, _)
ShiftBitsLsbFirst(m, value, i) ==
    IF i = 8 \/ m.err # "Ok" THEN m
    ELSE LET m1  == PinSet(m, "cfg_clk", 0)
             bit == BitAnd(Shr8(value, i), 1)
             m2  == PinSet(m1, "cfg_data", IF bit = 1 THEN 1 ELSE 0)
             m3  == PinSet(m2, "cfg_clk", 1)
         IN  ShiftBitsLsbFirst(m3, value, i + 1)

write_config_register_lsb_first(m, value) ==
    LET m1 == PinSet(m, "cfg_str", 0)
    IN  IF m1.err # "Ok" THEN m1
        ELSE LET m2 == ShiftBitsLsbFirst(m1, value, 0)
             IN  IF m2.err # "Ok" THEN m2 ELSE PinSet(m2, "cfg_str", 1)

\* faulty variant: the strobe is not lowered before the bits are clocked
write_config_register_strobe_left(m, value) ==
    LET m2 == ShiftBits(m, value, 0)
    IN  IF m2.err # "Ok" THEN m2 ELSE PinSet(m2, "cfg_str", 1)

\* faulty variant: the strobe is raised on the error path as well
write_config_register_strobe_always(m, value) ==
    LET m1 == PinSet(m, "cfg_str", 0)
    IN  IF m1.err # "Ok" THEN m1
        ELSE LET m2 == ShiftBits(m1, value, 0)
             IN  IF m2.err # "Ok"
                 THEN [PinSet([m2 EXCEPT !.err = "Ok", !.fail = NoFail], "cfg_str", 1)
                          EXCEPT !.err = m2.err]
                 ELSE PinSet(m2, "cfg_str", 1)

write_config_register(m, value) ==
    LET m1 == PinSet(m, "cfg_str", 0)
    IN  IF m1.err # "Ok" THEN m1
        ELSE LET m2 == ShiftBits(m1, value, 0)
             IN  IF m2.err # "Ok" THEN m2 ELSE PinSet(m2, "cfg_str", 1)

init_config_registers(m) ==
    LET m1 == PinSet(m, "cfg_data", 0)
        m2 == PinSet(m1, "cfg_clk", 1)
        m3 == PinSet(m2, "cfg_str", 0)
    IN  IF m3.err # "Ok" THEN m3 ELSE write_config_register(m3, 0)

set_config_power(m, enable) ==
    write_config_register(m, IF enable THEN BitOr(0, 4) ELSE 0)

\* faulty variant: the voltage byte is built without the power bit
set_config_voltages_without_power(m, pos_enable, neg_enable) ==
    LET c0 == 0
        c1 == IF pos_enable THEN BitOr(c0, 8) ELSE c0
        c2 == IF neg_enable THEN BitOr(c1, 16) ELSE c1
    IN  write_config_register(m, c2)

set_config_voltages(m, pos_enable, neg_enable) ==
    LET c0 == 4
        c1 == IF pos_enable THEN BitOr(c0, 8) ELSE c0
        c2 == IF neg_enable THEN BitOr(c1, 16) ELSE c1
    IN  write_config_register(m, c2)

set_config_output_enable(m, enable) ==
    write_config_register(m, IF enable THEN BitOr(28, 1) ELSE 28)

(* --------------------------- power sequencer --------------------------- *)
\* faulty variant: the settle delays of the voltage and output steps are exchanged
power_on_delays_exchanged(m) ==
    IF m.powered_on THEN m
    ELSE LET m1 == set_config_power(m, TRUE)
         IN  IF m1.err # "Ok" THEN m1
             ELSE LET m2 == set_config_voltages(delay_ms(m1, 10), TRUE, TRUE)
                  IN  IF m2.err # "Ok" THEN m2
                      ELSE LET m3 == set_config_output_enable(delay_ms(m2, 5), TRUE)
                           IN  IF m3.err # "Ok" THEN m3
                               ELSE set_powered_on(delay_ms(m3, 20), TRUE)

\* faulty variant: no early return when already powered
power_on_unguarded(m) ==
    LET m1 == set_config_power(m, TRUE)
    IN  IF m1.err # "Ok" THEN m1
        ELSE LET m2 == set_config_voltages(delay_ms(m1, 10), TRUE, TRUE)
             IN  IF m2.err # "Ok" THEN m2
                 ELSE LET m3 == set_config_output_enable(delay_ms(m2, 20), TRUE)
                      IN  IF m3.err # "Ok" THEN m3
                          ELSE set_powered_on(delay_ms(m3, 5), TRUE)

\* faulty variant: the state is marked On before the rails are sequenced
power_on_marked_first(m) ==
    IF m.powered_on THEN m
    ELSE LET m1 == set_config_power(set_powered_on(m, TRUE), TRUE)
         IN  IF m1.err # "Ok" THEN m1
             ELSE LET m2 == set_config_voltages(delay_ms(m1, 10), TRUE, TRUE)
                  IN  IF m2.err # "Ok" THEN m2
                      ELSE LET m3 == set_config_output_enable(delay_ms(m2, 20), TRUE)
                           IN  IF m3.err # "Ok" THEN m3
                               ELSE delay_ms(m3, 5)

power_on(m) ==
    IF m.powered_on THEN m
    ELSE LET m1 == set_config_power(m, TRUE)
         IN  IF m1.err # "Ok" THEN m1
             ELSE LET m2 == set_config_voltages(delay_ms(m1, 10), TRUE, TRUE)
                  IN  IF m2.err # "Ok" THEN m2
                      ELSE LET m3 == set_config_output_enable(delay_ms(m2, 20), TRUE)
                           IN  IF m3.err # "Ok" THEN m3
                               ELSE set_powered_on(delay_ms(m3, 5), TRUE)

\* faulty variant: the delays follow the order of power_on instead of its reverse
power_off_delays_of_power_on(m) ==
    IF ~m.powered_on THEN m
    ELSE LET m1 == set_config_output_enable(m, FALSE)
         IN  IF m1.err # "Ok" THEN m1
             ELSE LET m2 == set_config_voltages(delay_ms(m1, 10), FALSE, FALSE)
                  IN  IF m2.err # "Ok" THEN m2
                      ELSE LET m3 == set_config_power(delay_ms(m2, 20), FALSE)
                           IN  IF m3.err # "Ok" THEN m3
                               ELSE set_powered_on(delay_ms(m3, 5), FALSE)

power_off(m) ==
    IF ~m.powered_on THEN m
    ELSE LET m1 == set_config_output_enable(m, FALSE)
         IN  IF m1.err # "Ok" THEN m1
             ELSE LET m2 == set_config_voltages(delay_ms(m1, 5), FALSE, FALSE)
                  IN  IF m2.err # "Ok" THEN m2
                      ELSE LET m3 == set_config_power(delay_ms(m2, 20), FALSE)
                           IN  IF m3.err # "Ok" THEN m3
                               ELSE set_powered_on(delay_ms(m3, 10), FALSE)

(* ------------------------------ framebuffer ---------------------------- *)
\* `v as u32` of an i32: v itself when v >= 0.  A negative v wraps to
\* v + 2^32 >= 2^31, which is beyond the integers TLC represents: every such
\* value is represented by 2^31 - 1, like them far outside any panel.
AsU32(v) == IF v >= 0 THEN v ELSE 2147483647

\* vec![0xFF; FRAMEBUFFER_SIZE]; the model indexes it from 1
WhiteBuffer == [i \in 1..FRAMEBUFFER_SIZE |-> 255]

\* faulty variant: fills with 0x0F, which whitens only the odd pixels
clear_low_nibbles(m) == [m EXCEPT !.framebuffer = [i \in 1..Len(@) |-> 15]]

clear(m) == [m EXCEPT !.framebuffer = [i \in 1..Len(@) |-> 255]]

\* faulty variant: the nibbles are exchanged (even index -> low nibble)
set_pixel_nibbles_exchanged(m, x, y, color) ==
    IF m.err # "Ok" THEN m
    ELSE IF x >= DISPLAY_WIDTH \/ y >= DISPLAY_HEIGHT THEN [m EXCEPT !.err = "OutOfBounds"]
    ELSE IF color > 15 THEN [m EXCEPT !.err = "InvalidColor"]
    ELSE LET pixel_index    == y * DISPLAY_WIDTH + x
             byte_index     == pixel_index \div 2
             is_high_nibble == pixel_index % 2 = 1
             old            == m.framebuffer[byte_index + 1]
         IN  IF byte_index >= Len(m.framebuffer) THEN [m EXCEPT !.err = "OutOfBounds"]
             ELSE IF is_high_nibble
                  THEN [m EXCEPT !.framebuffer[byte_index + 1] =
                                     BitOr(BitAnd(old, 15), Shl8(color, 4))]
                  ELSE [m EXCEPT !.framebuffer[byte_index + 1] =
                                     BitOr(BitAnd(old, 240), color)]

\* faulty variant: the level is checked before the bounds
set_pixel_level_first(m, x, y, color) ==
    IF m.err # "Ok" THEN m
    ELSE IF color > 15 THEN [m EXCEPT !.err = "InvalidColor"]
    ELSE IF x >= DISPLAY_WIDTH \/ y >= DISPLAY_HEIGHT THEN [m EXCEPT !.err = "OutOfBounds"]
    ELSE LET pixel_index    == y * DISPLAY_WIDTH + x
             byte_index     == pixel_index \div 2
             is_high_nibble == pixel_index % 2 = 0
             old            == m.framebuffer[byte_index + 1]
         IN  IF byte_index >= Len(m.framebuffer) THEN [m EXCEPT !.err = "OutOfBounds"]
             ELSE IF is_high_nibble
                  THEN [m EXCEPT !.framebuffer[byte_index + 1] =
                                     BitOr(BitAnd(old, 15), Shl8(color, 4))]
                  ELSE [m EXCEPT !.framebuffer[byte_index + 1] =
                                     BitOr(BitAnd(old, 240), color)]

\* faulty variant: a level above 15 is masked into the nibble instead of rejected
set_pixel_level_masked(m, x, y, color) ==
    IF m.err # "Ok" THEN m
    ELSE IF x >= DISPLAY_WIDTH \/ y >= DISPLAY_HEIGHT THEN [m EXCEPT !.err = "OutOfBounds"]
    ELSE LET pixel_index    == y * DISPLAY_WIDTH + x
             byte_index     == pixel_index \div 2
             is_high_nibble == pixel_index % 2 = 0
             old            == m.framebuffer[byte_index + 1]
             level          == BitAnd(color, 15)
         IN  IF byte_index >= Len(m.framebuffer) THEN [m EXCEPT !.err = "OutOfBounds"]
             ELSE IF is_high_nibble
                  THEN [m EXCEPT !.framebuffer[byte_index + 1] =
                                     BitOr(BitAnd(old, 15), Shl8(level, 4))]
                  ELSE [m EXCEPT !.framebuffer[byte_index + 1] =
                                     BitOr(BitAnd(old, 240), level)]

set_pixel(m, x, y, color) ==
    IF m.err # "Ok" THEN m
    ELSE IF x >= DISPLAY_WIDTH \/ y >= DISPLAY_HEIGHT THEN [m EXCEPT !.err = "OutOfBounds"]
    ELSE IF color > 15 THEN [m EXCEPT !.err = "InvalidColor"]
    ELSE LET pixel_index    == y * DISPLAY_WIDTH + x
             byte_index     == pixel_index \div 2
             is_high_nibble == pixel_index % 2 = 0
             old            == m.framebuffer[byte_index + 1]
         IN  IF byte_index >= Len(m.framebuffer) THEN [m EXCEPT !.err = "OutOfBounds"]
             ELSE IF is_high_nibble
                  THEN [m EXCEPT !.framebuffer[byte_index + 1] =
                                     BitOr(BitAnd(old, 15), Shl8(color, 4))]
                  ELSE [m EXCEPT !.framebuffer[byte_index + 1] =
                                     BitOr(BitAnd(old, 240), color)]

\* faulty variant: the refresh runs without the power check
flush_unchecked(m, mode) == delay_ms(m, 100)

\* faulty variant: the WhiteOnBlack polarity is applied to the framebuffer
flush_inverting(m, mode) ==
    IF ~m.powered_on THEN [m EXCEPT !.err = "Hardware"]
    ELSE IF mode = "WhiteOnBlack"
         THEN delay_ms([m EXCEPT !.framebuffer = [i \in 1..Len(@) |-> 255 - @[i]]], 100)
         ELSE delay_ms(m, 100)

flush(m, mode) ==
    IF ~m.powered_on THEN [m EXCEPT !.err = "Hardware"]
    ELSE delay_ms(m, 100)

\* impl DrawTarget for Epd47Display: a pixel is <<x, y, luma>>
RECURSIVE draw_iter(_, _)
draw_iter(m, pixels) ==
    IF m.err # "Ok" \/ pixels = <<>> THEN m
    ELSE LET p  == Head(pixels)
             m1 == IF p[1] >= 0 /\ p[2] >= 0
                   THEN set_pixel(m, AsU32(p[1]), AsU32(p[2]), p[3])
                   ELSE m
         IN  draw_iter(m1, Tail(pixels))

\* OriginDimensions::size, and width() / height()
size(m) == <<DISPLAY_WIDTH, DISPLAY_HEIGHT>>

\* faulty variant: the config register is not initialised
new_uninitialised(hw0, fail) == Machine(FALSE, WhiteBuffer, hw0, fail)

new(hw0, fail) ==
    init_config_registers(Machine(FALSE, WhiteBuffer, hw0, fail))

(* ------------------- the drawing bridge of graphics.rs ----------------- *)
\* `v as u16` of an i32: the low 16 bits
AsU16(v) == v % 65536

\* Display::set_pixel(x: u16, y: u16, color): bounds, then level, then the
\* nibble of the pixel, as Epd47Display::set_pixel does
display_set_pixel(m, x, y, color) == set_pixel(m, x, y, color)

\* impl DrawTarget for Display: an OutOfBounds result skips the pixel, any
\* other error ends the draw
RECURSIVE display_draw_iter(_, _)
display_draw_iter(m, pixels) ==
    IF m.err # "Ok" \/ pixels = <<>> THEN m
    ELSE LET coord  == Head(pixels)
             result == display_set_pixel(m, AsU16(coord[1]), AsU16(coord[2]), coord[3])
         IN  IF result.err = "OutOfBounds"
             THEN display_draw_iter(m, Tail(pixels))
             ELSE display_draw_iter(result, Tail(pixels))

(* --------------------------- the repair cycle -------------------------- *)
\* one full-panel waveform pass at a level; like flush it drives the panel,
\* which must be powered, and it does not read or write the framebuffer
waveform_pass(m, level) ==
    IF m.err # "Ok" THEN m
    ELSE IF ~m.powered_on THEN [m EXCEPT !.err = "Hardware"]
    ELSE [m EXCEPT !.trace = Append(@, Ev("pass", "", level))]

\* n times a full-white pass followed by a full-black pass
RECURSIVE waveform_passes(_, _)
waveform_passes(m, n) ==
    IF n = 0 \/ m.err # "Ok" THEN m
    ELSE waveform_passes(waveform_pass(waveform_pass(m, 15), 0), n - 1)

\* faulty variant: the passes are run without powering the panel
repair_without_power_on(m) ==
    LET m1 == waveform_passes(m, RepairCycles)
    IN  IF m1.err # "Ok" THEN m1 ELSE power_off(m1)

repair(m) ==
    LET m1 == power_on(m)
    IN  IF m1.err # "Ok" THEN m1
        ELSE LET m2 == waveform_passes(m1, RepairCycles)
             IN  IF m2.err # "Ok" THEN m2 ELSE power_off(m2)

\* a filled rectangle reaches the driver as the stream of its pixels, row
\* by row
fill_rect(m, x, y, w, h, level) ==
    draw_iter(m, [k \in 1..(w * h) |->
                     <<x + ((k - 1) % w), y + ((k - 1) \div w), level>>])

(* ------------------------ the pulse channel (rmt.rs) ------------------- *)
\* One execution of Rmt::pulse: the ownership slot tx_channel, whether the
\* hardware channel is transmitting, the events so far, the hardware
\* operation that fails in this call ("none": none), and the error that
\* ended the execution.
RmtMachine(slot, busy, fail) ==
    [tx_channel |-> slot, busy |-> busy, trace |-> <<>>, fail |-> fail, err |-> "Ok"]

\* an event on the channel, with the slot and the hardware as it found them
RmtEv(r, kind, data) ==
    [ev |-> kind, slot |-> r.tx_channel, busy |-> r.busy, data |-> data]

\* PulseCode::new(level1, length1, level2, length2) and PulseCode::empty()
PulseCode(level1, length1, level2, length2) ==
    [level1 |-> level1, length1 |-> length1, level2 |-> level2, length2 |-> length2]
PulseCodeEmpty == PulseCode(FALSE, 0, FALSE, 0)

\* a fallible hardware operation followed by `.map_err(crate::Error::Rmt)?`
RmtOp(r, kind, data) ==
    IF r.err # "Ok" THEN r
    ELSE IF r.fail = kind THEN [r EXCEPT !.err = "Rmt"]
    ELSE [r EXCEPT !.trace = Append(@, RmtEv(r, kind, data))]

\* faulty variant: the channel is constructed on every call
ensure_channel_always_constructed(r) ==
    LET r1 == RmtOp(r, "new", <<>>)
        r2 == RmtOp(r1, "configure", <<>>)
    IN  IF r2.err # "Ok" THEN r2 ELSE [r2 EXCEPT !.tx_channel = "Some"]

ensure_channel(r) ==
    IF r.tx_channel # "None" THEN r
    ELSE LET r1 == RmtOp(r, "new", <<>>)
             r2 == RmtOp(r1, "configure", <<>>)
         IN  IF r2.err # "Ok" THEN r2 ELSE [r2 EXCEPT !.tx_channel = "Some"]

\* self.tx_channel.take().ok_or(crate::Error::Unknown)?
take_channel(r) ==
    IF r.err # "Ok" THEN r
    ELSE IF r.tx_channel = "None"
         THEN [r EXCEPT !.err = "Unknown", !.trace = Append(@, RmtEv(r, "take", <<>>))]
         ELSE [r EXCEPT !.tx_channel = "None", !.trace = Append(@, RmtEv(r, "take", <<>>))]

pulse_data(high, low) ==
    IF high > 0
    THEN <<PulseCode(TRUE, high, FALSE, low), PulseCodeEmpty>>
    ELSE <<PulseCode(TRUE, low, FALSE, 0), PulseCodeEmpty>>

\* tx_channel.transmit(&data): consumes the channel and starts the hardware
transmit(r, data) ==
    LET r1 == RmtOp(r, "transmit", data)
    IN  IF r1.err # "Ok" THEN r1 ELSE [r1 EXCEPT !.busy = TRUE]

\* tx.wait(): blocks until the hardware is done and gives the channel
\* back, on failure too (where it is dropped with the error tuple)
wait_done(r) ==
    LET r1 == RmtOp(r, "wait", <<>>)
    IN  IF r.err # "Ok" THEN r
        ELSE IF r1.err # "Ok" THEN [r1 EXCEPT !.busy = FALSE]
        ELSE [r1 EXCEPT !.busy = FALSE, !.tx_channel = "Some"]

\* faulty variant: the channel is waited for and stored whatever `wait` is
pulse_always_waiting(r, high, low, wait) ==
    wait_done(transmit(take_channel(ensure_channel(r)), pulse_data(high, low)))

\* faulty variant: a failed transmit is not reported
pulse_transmit_error_dropped(r, high, low, wait) ==
    LET r1 == take_channel(ensure_channel(r))
        r2 == transmit(r1, pulse_data(high, low))
    IN  IF r1.err = "Ok" /\ r2.err # "Ok" THEN r1
        ELSE IF wait THEN wait_done(r2) ELSE r2

\* faulty variant: on any error the slot is filled again with the channel
\* the call had taken
pulse_channel_kept_on_error(r, high, low, wait) ==
    LET r1 == take_channel(ensure_channel(r))
        r2 == transmit(r1, pulse_data(high, low))
        r3 == IF wait THEN wait_done(r2) ELSE r2
    IN  IF r3.err # "Ok" THEN [r3 EXCEPT !.tx_channel = "Some"] ELSE r3

pulse(r, high, low, wait) ==
    LET r1 == take_channel(ensure_channel(r))
        r2 == transmit(r1, pulse_data(high, low))
    IN  IF wait THEN wait_done(r2) ELSE r2

(* ---------------------- the message store (message_handler.rs) -------- *)
\* ChatMessage::new: the timestamp is the fixed string of get_current_time
ChatMessage(content, is_user) ==
    [content |-> content, is_user |-> is_user, timestamp |-> "12:34"]

\* the first two branches of generate_ai_response, on the inputs "hello"
\* (contains "hello") and "weather" (contains neither "hello" nor "hi")
generate_ai_response(user_input) ==
    IF user_input = "hello"
    THEN "Hello! I'm your AI assistant running on an e-paper display. How can I help you today?"
    ELSE "I don't have access to current weather data since I'm running offline on this e-paper display. But I hope it's beautiful where you are!"

\* faulty variant: the oldest message is evicted as soon as the limit is reached
add_message_evicting_early(msgs, message) ==
    LET pushed == Append(msgs, message)
    IN  IF Len(pushed) >= max_messages THEN Tail(pushed) ELSE pushed

\* push, then remove(0) when the limit is exceeded
add_message(msgs, message) ==
    LET pushed == Append(msgs, message)
    IN  IF Len(pushed) > max_messages THEN Tail(pushed) ELSE pushed

add_user_message(msgs, content) ==
    LET with_user == add_message(msgs, ChatMessage(content, TRUE))
        response  == generate_ai_response(content)
    IN  add_message(with_user, ChatMessage(response, FALSE))

clear_messages(msgs) == <<>>

(* ------------------ grey levels of the platform (epd_platform.rs) ----- *)
\* the product of two u8 values as the build computes it: with overflow
\* checks (debug profile) a product above 255 panics, without them
\* (release profile) it wraps
MulU8(a, b, overflow_checks) ==
    [val |-> (a * b) % 256, panic |-> overflow_checks /\ a * b > 255]

\* The f32 sum 0.299*r8 + 0.587*g8 + 0.114*b8 is within 0.0001 of the exact
\* sum, which is a multiple of 0.001; `as u8` truncates it. So the result is
\* the floor of the exact sum, except that an exact whole number may have
\* been rounded to just below itself.
LumaAsU8(r8, g8, b8) ==
    LET thousandths == 299 * r8 + 587 * g8 + 114 * b8
        floor == thousandths \div 1000
    IN  IF thousandths % 1000 = 0 /\ floor > 0 THEN {floor - 1, floor} ELSE {floor}

\* the components, their 8-bit conversions and the set of values the
\* function may return; a panic in a product ends the function there
rgb565_to_grayscale(rgb565, overflow_checks) ==
    LET r == ((rgb565 \div 2048) % 32) % 256
        g == ((rgb565 \div 32) % 64) % 256
        b == (rgb565 % 32) % 256
        rp == MulU8(r, 255, overflow_checks)
        gp == MulU8(g, 255, overflow_checks)
        bp == MulU8(b, 255, overflow_checks)
        r8 == rp.val \div 31
        g8 == gp.val \div 63
        b8 == bp.val \div 31
    IN  IF rp.panic \/ gp.panic \/ bp.panic
        THEN [res |-> "Panic", r |-> r, g |-> g, b |-> b,
              r8 |-> 0, g8 |-> 0, b8 |-> 0, grays |-> {0}]
        ELSE [res |-> "Ok", r |-> r, g |-> g, b |-> b,
              r8 |-> r8, g8 |-> g8, b8 |-> b8, grays |-> LumaAsU8(r8, g8, b8)]

(* ------------------------------- the state ----------------------------- *)
VARIABLES powered_on, framebuffer, hw, trace, last, tx_channel, tx_busy, messages

vars == <<powered_on, framebuffer, hw, trace, last, tx_channel, tx_busy, messages>>

\* MessageHandler::new: no message stored
MessageHandlerNew == messages = <<>>

\* Rmt::new: no channel yet, nothing transmitted
RmtNew == tx_channel = "None" /\ tx_busy = FALSE

\* the levels the lines and the register may have before construction
RawHw == [cfg_data : {0, 1}, cfg_clk : {0, 1}, cfg_str : {0, 1},
          shift : {0, 29, 255}, latch : {0, 29, 255}]

\* inputs
DrawModes == {"BlackOnWhite", "WhiteOnBlack", "WhiteOnWhite"}
Levels == {5, 15, 16, 255}
Xs == 0..DISPLAY_WIDTH
Ys == 0..DISPLAY_HEIGHT
\* GPIO operations per register write, and the failure points of a
\* three-write power sequence that are tried
OpsPerWrite == 2 + 3 * 8
FailPoints == {NoFail, 0, 12, OpsPerWrite - 1, OpsPerWrite + 10,
               2 * OpsPerWrite, 2 * OpsPerWrite + 20, 3 * OpsPerWrite - 1}
\* the coordinates tried by the whole-driver specification: two pixels of
\* the first byte, the last pixel, and one step outside each edge
Corners == {<<0, 0>>, <<1, 0>>, <<DISPLAY_WIDTH - 1, DISPLAY_HEIGHT - 1>>,
            <<DISPLAY_WIDTH, 0>>, <<0, DISPLAY_HEIGHT>>}
\* the pixels of a drawn stream: two inside the panel and one beyond each
\* of its four edges
StreamPixels == {<<p[1], p[2], 5>> :
                    p \in {<<0, 0>>, <<DISPLAY_WIDTH - 1, DISPLAY_HEIGHT - 1>>,
                           <<0 - 1, 0>>, <<0, 0 - 1>>,
                           <<DISPLAY_WIDTH, 0>>, <<0, DISPLAY_HEIGHT>>}}
Streams == UNION {[1..n -> StreamPixels] : n \in 0..MaxStream}

InPanel(x, y) == x >= 0 /\ x < DISPLAY_WIDTH /\ y >= 0 /\ y < DISPLAY_HEIGHT

Self(fail) == Machine(powered_on, framebuffer, hw, fail)

\* the object after a call, and what the call was
Return(m, op, inb, okc) ==
    /\ powered_on' = m.powered_on
    /\ framebuffer' = m.framebuffer
    /\ hw' = m.hw
    /\ trace' = m.trace
    /\ last' = [op |-> op, res |-> m.err, wasOn |-> powered_on,
                inb |-> inb, okc |-> okc]
    /\ UNCHANGED <<tx_channel, tx_busy, messages>>

Init ==
    \E hw0 \in RawHw :
        LET m == new(hw0, NoFail)
        IN  /\ powered_on = m.powered_on
            /\ framebuffer = m.framebuffer
            /\ hw = m.hw
            /\ trace = m.trace
            /\ last = [op |-> "new", res |-> m.err, wasOn |-> FALSE,
                       inb |-> TRUE, okc |-> TRUE]
            /\ RmtNew /\ MessageHandlerNew

PowerOn(f) == Return(power_on(Self(f)), "power_on", TRUE, TRUE)

PowerOff(f) == Return(power_off(Self(f)), "power_off", TRUE, TRUE)

Clear == Return(clear(Self(NoFail)), "clear", TRUE, TRUE)

SetPixel(x, y, color) ==
    Return(set_pixel(Self(NoFail), x, y, color), "set_pixel",
           InPanel(x, y), color <= 15)

Flush(mode) == Return(flush(Self(NoFail), mode), "flush", TRUE, TRUE)

DrawIter(pixels) ==
    Return(draw_iter(Self(NoFail), pixels), "draw_iter",
           \A i \in 1..Len(pixels) : InPanel(pixels[i][1], pixels[i][2]), TRUE)

Next ==
    \/ \E f \in FailPoints : PowerOn(f)
    \/ \E f \in FailPoints : PowerOff(f)
    \/ Clear
    \/ \E p \in Corners, color \in Levels : SetPixel(p[1], p[2], color)
    \/ \E mode \in DrawModes : Flush(mode)
    \/ \E pixels \in Streams : DrawIter(pixels)

Spec == Init /\ [][Next]_vars

(* ---------------- set_pixel on every framebuffer and coordinate -------- *)
Panel == (0..(DISPLAY_WIDTH - 1)) \X (0..(DISPLAY_HEIGHT - 1))

\* the driver after successful writes of level 5 to the pixels of S
RECURSIVE Painted(_, _)
Painted(m, S) ==
    IF S = {} THEN m
    ELSE LET p == CHOOSE q \in S : TRUE
         IN  Painted(set_pixel(m, p[1], p[2], 5), S \ {p})

\* the constructed driver with any set of pixels painted; no call is
\* observed yet
InitPixel ==
    \E S \in SUBSET Panel :
        LET m == Painted(new(CHOOSE h \in RawHw : TRUE, NoFail), S)
        IN  /\ powered_on = m.powered_on
            /\ framebuffer = m.framebuffer
            /\ hw = m.hw
            /\ trace = <<>>
            /\ last = [op |-> "painted", res |-> m.err, wasOn |-> FALSE,
                       inb |-> TRUE, okc |-> TRUE]
            /\ RmtNew /\ MessageHandlerNew

\* one set_pixel call, observed with its arguments and the framebuffer it
\* found
PixelCall(x, y, color) ==
    LET m == set_pixel(Self(NoFail), x, y, color)
    IN  /\ last.op = "painted"
        /\ powered_on' = m.powered_on
        /\ framebuffer' = m.framebuffer
        /\ hw' = m.hw
        /\ trace' = m.trace
        /\ last' = [op |-> "set_pixel", res |-> m.err, wasOn |-> powered_on,
                    inb |-> InPanel(x, y), okc |-> color <= 15,
                    x |-> x, y |-> y, color |-> color, before |-> framebuffer]
        /\ UNCHANGED <<tx_channel, tx_busy, messages>>

NextPixel == \E x \in Xs, y \in Ys, color \in Levels : PixelCall(x, y, color)

SpecPixel == InitPixel /\ [][NextPixel]_vars

(* ------------- write_config_register on every byte value --------------- *)
Bytes == 0..255
\* an earlier write, which may have failed at its first strobe write, in
\* the middle of its bits, or at its last strobe write
EarlierBytes == {165, 255}
RegFailPoints == {NoFail, 0, 13, OpsPerWrite - 1}

\* a failing write may follow a complete one
EarlierWrite(v, f) ==
    LET m == write_config_register(Self(f), v)
    IN  /\ \/ last.op = "new"
           \/ last.op = "earlier_write" /\ last.res = "Ok" /\ f # NoFail
        /\ powered_on' = m.powered_on
        /\ framebuffer' = m.framebuffer
        /\ hw' = m.hw
        /\ trace' = m.trace
        /\ last' = [op |-> "earlier_write", res |-> m.err, wasOn |-> powered_on,
                    inb |-> TRUE, okc |-> TRUE, value |-> v, latch0 |-> hw.latch]
        /\ UNCHANGED <<tx_channel, tx_busy, messages>>

\* one write_config_register call whose GPIO operations all succeed,
\* observed with its argument and the register it found
WriteReg(v) ==
    LET m == write_config_register(Self(NoFail), v)
    IN  /\ last.op \in {"new", "earlier_write"}
        /\ powered_on' = m.powered_on
        /\ framebuffer' = m.framebuffer
        /\ hw' = m.hw
        /\ trace' = m.trace
        /\ last' = [op |-> "write_config_register", res |-> m.err,
                    wasOn |-> powered_on, inb |-> TRUE, okc |-> TRUE,
                    value |-> v, latch0 |-> hw.latch]
        /\ UNCHANGED <<tx_channel, tx_busy, messages>>

NextReg ==
    \/ \E v \in EarlierBytes, f \in RegFailPoints : EarlierWrite(v, f)
    \/ \E v \in Bytes : WriteReg(v)

SpecReg == Init /\ [][NextReg]_vars

(* ------------------- repair among the other operations ---------------- *)
\* rectangles inside the panel: those that start at the first pixel and
\* those that end at the last
Rects ==
    {<<0, 0, w, h>> : w \in 1..DISPLAY_WIDTH, h \in 1..DISPLAY_HEIGHT}
        \cup {<<DISPLAY_WIDTH - w, DISPLAY_HEIGHT - h, w, h>> :
                  w \in 1..DISPLAY_WIDTH, h \in 1..DISPLAY_HEIGHT}

FillRect(r, level) ==
    Return(fill_rect(Self(NoFail), r[1], r[2], r[3], r[4], level), "fill_rect",
           TRUE, TRUE)

Repair == Return(repair(Self(NoFail)), "repair", TRUE, TRUE)

\* the driver with working hardware
NextRepair ==
    \/ PowerOn(NoFail)
    \/ PowerOff(NoFail)
    \/ \E r \in Rects : FillRect(r, 8)
    \/ Clear
    \/ \E mode \in DrawModes : Flush(mode)
    \/ Repair

SpecRepair == Init /\ [][NextRepair]_vars

(* ------------------- streams drawn through graphics.rs ---------------- *)
\* pixels of a stream: the first and the last of the panel, one beyond the
\* left and the right edge, and two whose coordinates are 2^16 beyond a
\* pixel of the panel
WidePixels ==
    {<<p[1], p[2], 5>> :
        p \in {<<0, 0>>, <<DISPLAY_WIDTH - 1, DISPLAY_HEIGHT - 1>>,
               <<0 - 1, 0>>, <<DISPLAY_WIDTH, 0>>,
               <<65536 + 1, 0>>, <<0, (0 - 65536) + (DISPLAY_HEIGHT - 1)>>}}
WideStreams == UNION {[1..n -> WidePixels] : n \in 0..MaxStream}

DisplayDrawIter(pixels) ==
    LET m == display_draw_iter(Self(NoFail), pixels)
    IN  /\ powered_on' = m.powered_on
        /\ framebuffer' = m.framebuffer
        /\ hw' = m.hw
        /\ trace' = m.trace
        /\ last' = [op |-> "display_draw_iter", res |-> m.err,
                    wasOn |-> powered_on, inb |-> TRUE, okc |-> TRUE,
                    pixels |-> pixels]
        /\ UNCHANGED <<tx_channel, tx_busy, messages>>

NextGraphics == \E pixels \in WideStreams : DisplayDrawIter(pixels)

SpecGraphics == Init /\ [][NextGraphics]_vars

(* ----------------------- calls on the message store ------------------- *)
Contents == {"hello", "weather"}
ChatMessages == {ChatMessage(c, u) : c \in Contents, u \in BOOLEAN}

\* the message store of a program that has its panel driver constructed;
\* here trace holds the messages inserted since the store was last empty
InitMessages ==
    LET m == new(CHOOSE h \in RawHw : TRUE, NoFail)
    IN  /\ powered_on = m.powered_on
        /\ framebuffer = m.framebuffer
        /\ hw = m.hw
        /\ trace = <<>>
        /\ last = [op |-> "new", res |-> "Ok"]
        /\ RmtNew /\ MessageHandlerNew

AddMessage(message) ==
    /\ Len(trace) + 1 <= MaxInserted
    /\ messages' = add_message(messages, message)
    /\ trace' = Append(trace, message)
    /\ last' = [op |-> "add_message", res |-> "Ok"]
    /\ UNCHANGED <<powered_on, framebuffer, hw, tx_channel, tx_busy>>

AddUserMessage(content) ==
    /\ Len(trace) + 2 <= MaxInserted
    /\ messages' = add_user_message(messages, content)
    /\ trace' = trace \o <<ChatMessage(content, TRUE),
                            ChatMessage(generate_ai_response(content), FALSE)>>
    /\ last' = [op |-> "add_user_message", res |-> "Ok"]
    /\ UNCHANGED <<powered_on, framebuffer, hw, tx_channel, tx_busy>>

ClearMessages ==
    /\ messages' = clear_messages(messages)
    /\ trace' = <<>>
    /\ last' = [op |-> "clear_messages", res |-> "Ok"]
    /\ UNCHANGED <<powered_on, framebuffer, hw, tx_channel, tx_busy>>

NextMessages ==
    \/ \E message \in ChatMessages : AddMessage(message)
    \/ \E content \in Contents : AddUserMessage(content)
    \/ ClearMessages

SpecMessages == InitMessages /\ [][NextMessages]_vars

(* ------------------------- conversions of a pixel ---------------------- *)
Rgb565 == 0..65535

\* a pixel of the rendered buffer and the profile the program was built with
InitGray ==
    LET m == new(CHOOSE h \in RawHw : TRUE, NoFail)
    IN  /\ powered_on = m.powered_on
        /\ framebuffer = m.framebuffer
        /\ hw = m.hw
        /\ trace = <<>>
        /\ \E rgb565 \in Rgb565, overflow_checks \in BOOLEAN :
               last = [op |-> "pixel", rgb565 |-> rgb565,
                       overflow_checks |-> overflow_checks]
        /\ RmtNew /\ MessageHandlerNew

Rgb565ToGrayscale ==
    /\ last.op = "pixel"
    /\ LET c == rgb565_to_grayscale(last.rgb565, last.overflow_checks)
       IN  \E gray \in c.grays :
               last' = [op |-> "rgb565_to_grayscale", rgb565 |-> last.rgb565,
                        overflow_checks |-> last.overflow_checks, res |-> c.res,
                        r |-> c.r, g |-> c.g, b |-> c.b,
                        r8 |-> c.r8, g8 |-> c.g8, b8 |-> c.b8, gray |-> gray]
    /\ UNCHANGED <<powered_on, framebuffer, hw, trace, tx_channel, tx_busy, messages>>

NextGray == Rgb565ToGrayscale

SpecGray == InitGray /\ [][NextGray]_vars

(* --------------------------- pulses on the channel --------------------- *)
MaxTicks == 2
Ticks == 0..MaxTicks
\* the hardware operation of a pulse call that fails, if any
RmtFailures == {"none", "new", "configure", "transmit", "wait"}

\* the Rmt of a display that has its panel driver constructed
InitRmt ==
    LET m == new(CHOOSE h \in RawHw : TRUE, NoFail)
    IN  /\ powered_on = m.powered_on
        /\ framebuffer = m.framebuffer
        /\ hw = m.hw
        /\ trace = <<>>
        /\ last = [op |-> "new", res |-> "Ok", wait |-> FALSE, high |-> 0,
                   low |-> 0, fail |-> "none", slot0 |-> "None", busy0 |-> FALSE]
        /\ RmtNew /\ MessageHandlerNew

Pulse(high, low, wait, fail) ==
    LET r == pulse(RmtMachine(tx_channel, tx_busy, fail), high, low, wait)
    IN  /\ tx_channel' = r.tx_channel
        /\ tx_busy' = r.busy
        /\ trace' = r.trace
        /\ last' = [op |-> "pulse", res |-> r.err, wait |-> wait, high |-> high,
                    low |-> low, fail |-> fail, slot0 |-> tx_channel,
                    busy0 |-> tx_busy]
        /\ UNCHANGED <<powered_on, framebuffer, hw, messages>>

\* the hardware finishes the transmission that a pulse left running
TransmissionDone ==
    /\ tx_busy
    /\ tx_busy' = FALSE
    /\ UNCHANGED <<powered_on, framebuffer, hw, trace, last, tx_channel, messages>>

NextRmt ==
    \/ \E high \in Ticks, low \in Ticks, wait \in BOOLEAN, fail \in RmtFailures :
           Pulse(high, low, wait, fail)
    \/ TransmissionDone

SpecRmt == InitRmt /\ [][NextRmt]_vars

(* ===================== properties of the power sequencer =============== *)
Bit(b, n) == (b \div Pow2(n)) % 2

\* the events of a call other than single GPIO writes: register commits,
\* delays and the update of powered_on
Steps(tr) == SelectSeq(tr, LAMBDA e : e.ev # "gpio")
EventsOf(tr, kind) == SelectSeq(tr, LAMBDA e : e.ev = kind)
GpioWrites(tr) == SelectSeq(tr, LAMBDA e : e.ev = "gpio")
Commits(tr) == SelectSeq(tr, LAMBDA e : e.ev = "commit")
Delays(tr) == SelectSeq(tr, LAMBDA e : e.ev = "delay")
Vals(tr) == [i \in 1..Len(tr) |-> tr[i].val]
Reverse(q) == [i \in 1..Len(q) |-> q[Len(q) + 1 - i]]

\* bit0 = output enable, bit2 = power, bit3 / bit4 = positive / negative voltage
RailOrder(b) ==
    /\ (Bit(b, 3) = 1 \/ Bit(b, 4) = 1) => Bit(b, 2) = 1
    /\ Bit(b, 0) = 1 => (Bit(b, 2) = 1 /\ Bit(b, 3) = 1 /\ Bit(b, 4) = 1)

\* C1: every byte committed to the config register, by construction and by
\* any sequence of power_on and power_off calls (failed ones included), has
\* a voltage bit only with the power bit and the output bit only with the
\* power bit and both voltage bits.
C1_RailOrder ==
    /\ RailOrder(hw.latch)
    /\ \A i \in 1..Len(trace) : trace[i].ev = "commit" => RailOrder(trace[i].val)

\* a power_on that committed the voltages (28) and then the output (29)
C1_Witness ==
    /\ last.op = "power_on"
    /\ hw.latch = 29
    /\ Vals(Commits(trace)) = <<4, 28, 29>>

\* C2: a power_on called in state Off whose register writes all succeed
\* commits 0x04, waits 10 ms, commits 0x1C, waits 20 ms, commits 0x1D, waits
\* 5 ms, and only then marks the state On; it makes exactly three commits.
C2_PowerOnSequence ==
    (last.op = "power_on" /\ ~last.wasOn /\ last.res = "Ok") =>
        /\ Steps(trace) = <<Ev("commit", "", 4), Ev("delay", "", 10),
                            Ev("commit", "", 28), Ev("delay", "", 20),
                            Ev("commit", "", 29), Ev("delay", "", 5),
                            Ev("mark", "", 1)>>
        /\ powered_on
        /\ hw.latch = 29

C2_Witness ==
    /\ last.op = "power_on" /\ ~last.wasOn /\ last.res = "Ok"
    /\ Len(Commits(trace)) = 3

\* the steps of power_on on the freshly constructed driver
PowerOnSteps ==
    LET m0 == new(CHOOSE h \in RawHw : TRUE, NoFail)
    IN  Steps(power_on(Machine(FALSE, m0.framebuffer, m0.hw, NoFail)).trace)

\* C3: a power_off called in state On whose register writes all succeed
\* commits 0x1C, waits 5 ms, commits 0x04, waits 20 ms, commits 0x00, waits
\* 10 ms, then marks Off.  It mirrors power_on: the register values it
\* commits are those power_on passes through (from 0x00 on) in reverse
\* order, its delays are those of power_on in reverse order, and it leaves
\* the register at 0x00 and the state Off.
C3_PowerOffMirror ==
    (last.op = "power_off" /\ last.wasOn /\ last.res = "Ok") =>
        /\ Steps(trace) = <<Ev("commit", "", 28), Ev("delay", "", 5),
                            Ev("commit", "", 4), Ev("delay", "", 20),
                            Ev("commit", "", 0), Ev("delay", "", 10),
                            Ev("mark", "", 0)>>
        /\ Vals(Commits(trace))
               = Tail(Reverse(<<0>> \o Vals(Commits(PowerOnSteps))))
        /\ Vals(Delays(trace)) = Reverse(Vals(Delays(PowerOnSteps)))
        /\ ~powered_on
        /\ hw.latch = 0

C3_Witness ==
    /\ last.op = "power_off" /\ last.wasOn /\ last.res = "Ok"
    /\ Len(Commits(trace)) = 3
    /\ hw.latch = 0

\* C4: power_on called when already On, and power_off called when already
\* Off, return Ok, touch no pin, commit nothing, wait for nothing, and leave
\* the power state, the register and the framebuffer as they were.
C4_Idempotent ==
    [][\A f \in FailPoints :
          /\ (powered_on /\ PowerOn(f)) =>
                 /\ last'.res = "Ok" /\ trace' = <<>>
                 /\ powered_on' /\ hw' = hw /\ framebuffer' = framebuffer
          /\ (~powered_on /\ PowerOff(f)) =>
                 /\ last'.res = "Ok" /\ trace' = <<>>
                 /\ ~powered_on' /\ hw' = hw /\ framebuffer' = framebuffer]_vars

\* power_on called on a powered driver whose framebuffer has been drawn to
C4_Witness ==
    /\ last.op = "power_on" /\ last.wasOn /\ last.res = "Ok"
    /\ trace = <<>>
    /\ framebuffer # WhiteBuffer

\* C5: flush, in every draw mode, called while the state is Off fails with
\* Hardware before any hardware effect and changes neither the framebuffer
\* nor the power state.
C5_FlushWhileOff ==
    [][\A mode \in DrawModes :
          (~powered_on /\ Flush(mode)) =>
              /\ last'.res = "Hardware" /\ trace' = <<>>
              /\ ~powered_on' /\ hw' = hw /\ framebuffer' = framebuffer]_vars

C5_Witness ==
    /\ last.op = "flush" /\ ~last.wasOn /\ last.res = "Hardware"
    /\ trace = <<>>
    /\ framebuffer # WhiteBuffer

\* the commits and delays of an undisturbed power sequence, in order
SequenceOf(op) ==
    IF op = "power_on"
    THEN <<Ev("commit", "", 4), Ev("delay", "", 10),
           Ev("commit", "", 28), Ev("delay", "", 20),
           Ev("commit", "", 29), Ev("delay", "", 5)>>
    ELSE <<Ev("commit", "", 28), Ev("delay", "", 5),
           Ev("commit", "", 4), Ev("delay", "", 20),
           Ev("commit", "", 0), Ev("delay", "", 10)>>

\* C18: a power_on or power_off that does not return Ok returns the GPIO
\* error of the register write that failed.  What it did before is a prefix
\* of the undisturbed sequence: k < 3 complete writes, each followed by its
\* settle delay, then the GPIO writes of the failing register write up to
\* the failure, and nothing after it (no commit, no delay, no update of the
\* state).  The register holds the last byte committed (the one before the
\* call if none was), and powered_on and the framebuffer are as before the
\* call.
C18_AbortsAtFailure ==
    [][(last'.op \in {"power_on", "power_off"} /\ last'.res # "Ok") =>
          LET k == Len(Commits(trace'))
              g == Len(GpioWrites(trace'))
          IN  /\ last'.res = "Gpio"
              /\ k < 3
              /\ Steps(trace') = SubSeq(SequenceOf(last'.op), 1, 2 * k)
              /\ k * OpsPerWrite <= g /\ g < (k + 1) * OpsPerWrite
              /\ (g > k * OpsPerWrite) => trace'[Len(trace')].ev = "gpio"
              /\ hw'.latch = IF k = 0 THEN hw.latch ELSE Commits(trace')[k].val
              /\ powered_on' = powered_on
              /\ framebuffer' = framebuffer]_vars

\* a power_off aborted in its third register write, after two commits
C18_Witness ==
    /\ last.op = "power_off" /\ last.res = "Gpio"
    /\ Vals(Commits(trace)) = <<28, 4>>
    /\ hw.latch = 4
    /\ powered_on

\* C19: when a power_on was aborted by a register-write failure after it
\* had committed the power bit (0x04) or the power and voltage bits (0x1C),
\* a power_off called next that returns Ok leaves the register at 0x00 and
\* the state Off.
C19_PowerOffRecovers ==
    [][(/\ last.op = "power_on" /\ last.res = "Gpio"
        /\ Commits(trace) # <<>>
        /\ last'.op = "power_off" /\ last'.res = "Ok") =>
          (hw'.latch = 0 /\ ~powered_on')]_vars

\* n times a full-white pass then a full-black pass
PassesOf(n) ==
    [k \in 1..(2 * n) |-> Ev("pass", "", IF k % 2 = 1 THEN 15 ELSE 0)]

\* C20: with working hardware repair returns Ok in either power state.  It
\* runs power-on (nothing when already On), then the alternating
\* white / black passes, then power-off; it ends Off with the register at
\* 0x00 and the framebuffer as it found it, and a power_off right after it
\* does nothing.  power_on, fill_rect of a rectangle inside the panel, and
\* flush while On, return Ok as well.
C20_RepairCycle ==
    [][/\ (last'.op = "repair") =>
              /\ last'.res = "Ok"
              /\ Steps(trace')
                     = (IF powered_on THEN <<>>
                        ELSE SequenceOf("power_on") \o <<Ev("mark", "", 1)>>)
                       \o PassesOf(RepairCycles)
                       \o SequenceOf("power_off") \o <<Ev("mark", "", 0)>>
              /\ ~powered_on' /\ hw'.latch = 0
              /\ framebuffer' = framebuffer
       /\ (last.op = "repair" /\ last'.op = "power_off") =>
              /\ last'.res = "Ok" /\ trace' = <<>>
              /\ ~powered_on' /\ hw' = hw /\ framebuffer' = framebuffer
       /\ (last'.op \in {"power_on", "power_off", "fill_rect"}) => last'.res = "Ok"
       /\ (last'.op = "flush" /\ powered_on) => last'.res = "Ok"]_vars

\* repair called on a powered driver whose framebuffer holds a rectangle,
\* after a flush
C20_Witness ==
    /\ last.op = "repair" /\ last.wasOn /\ last.res = "Ok"
    /\ framebuffer # WhiteBuffer
    /\ ~powered_on
    /\ Len(EventsOf(trace, "pass")) = 2 * RepairCycles

\* C21: the constructed driver is Off, its framebuffer has WIDTH * HEIGHT / 2
\* bytes, all 0xFF, and its register was committed to 0x00 whatever it held
\* before; after any sequence of calls the framebuffer still has that
\* length, and the reported size is WIDTH x HEIGHT.
C21_Construction ==
    /\ (last.op = "new") =>
           /\ last.res = "Ok"
           /\ ~powered_on
           /\ framebuffer = [i \in 1..((DISPLAY_WIDTH * DISPLAY_HEIGHT) \div 2) |-> 255]
           /\ hw.latch = 0
           /\ Commits(trace) = <<Ev("commit", "", 0)>>
    /\ 2 * Len(framebuffer) = DISPLAY_WIDTH * DISPLAY_HEIGHT
    /\ size(Self(NoFail)) = <<DISPLAY_WIDTH, DISPLAY_HEIGHT>>

\* the driver right after construction
C21_Witness ==
    /\ last.op = "new" /\ last.res = "Ok"
    /\ hw.latch = 0 /\ hw.cfg_str = 1
    /\ Len(GpioWrites(trace)) = 3 + OpsPerWrite

\* C22: flush called while On returns Ok in each draw mode after the
\* refresh delay and nothing else; the framebuffer, the power state and the
\* lines and register are unchanged, and the driver it leaves is the same
\* for every mode.
C22_FlushWhileOn ==
    [][\A mode \in DrawModes :
          (powered_on /\ Flush(mode)) =>
              /\ last'.res = "Ok"
              /\ trace' = <<Ev("delay", "", 100)>>
              /\ powered_on' /\ hw' = hw /\ framebuffer' = framebuffer
              /\ \A other \in DrawModes :
                     flush(Self(NoFail), other) = flush(Self(NoFail), mode)]_vars

\* a flush of a drawn framebuffer on a powered driver
C22_Witness ==
    /\ last.op = "flush" /\ last.wasOn /\ last.res = "Ok"
    /\ powered_on /\ hw.latch = 29
    /\ framebuffer # WhiteBuffer

\* C23: between calls, powered_on is true only with 0x1D committed and
\* false only with 0x00 committed, also after a failed register write.
C23_FlagMatchesRegister ==
    /\ powered_on => hw.latch = 29
    /\ ~powered_on => hw.latch = 0

(* ===================== properties of the register protocol ============= *)
\* strobe low; eight times clock low, data = next bit from bit 7 down,
\* clock high; strobe high
ProtocolOf(value) ==
    [k \in 1..OpsPerWrite |->
        IF k = 1 THEN Ev("gpio", "cfg_str", 0)
        ELSE IF k = OpsPerWrite THEN Ev("gpio", "cfg_str", 1)
        ELSE LET i == (k - 2) \div 3
                 r == (k - 2) % 3
             IN  IF r = 0 THEN Ev("gpio", "cfg_clk", 0)
                 ELSE IF r = 1 THEN Ev("gpio", "cfg_data", Bit(value, 7 - i))
                 ELSE Ev("gpio", "cfg_clk", 1)]

\* C11: write_config_register(value), for every value of 0..255 and with no
\* GPIO failure, returns Ok after writing strobe low, then eight times clock
\* low, data = the next bit of value from bit 7 down to bit 0, clock high,
\* and strobe high last; the shift register has then sampled exactly the
\* eight bits of value, and the one byte committed, at the final strobe
\* edge, is value.
C11_WriteProtocol ==
    (last.op = "write_config_register") =>
        /\ last.res = "Ok"
        /\ GpioWrites(trace) = ProtocolOf(last.value)
        /\ Commits(trace) = <<Ev("commit", "", last.value)>>
        /\ trace[Len(trace)] = Ev("commit", "", last.value)
        /\ hw.shift = last.value
        /\ hw.latch = last.value

\* 0xA6, which differs from its bit reversal, written over a committed 0xFF
C11_Witness ==
    /\ last.op = "write_config_register" /\ last.res = "Ok"
    /\ last.value = 166 /\ last.latch0 = 255
    /\ hw.latch = 166

\* the register bits a config helper's arguments name
NamedBits(helper) ==
    IF helper = "set_config_power" THEN {2}
    ELSE IF helper = "set_config_voltages" THEN {3, 4}
    ELSE {0}

\* the helpers behind the successive commits of a power sequence
HelpersOf(op) ==
    IF op = "power_on"
    THEN <<"set_config_power", "set_config_voltages", "set_config_output_enable">>
    ELSE <<"set_config_output_enable", "set_config_voltages", "set_config_power">>

KeepsOtherBits(prev, byte, helper) ==
    \A n \in (0..7) \ NamedBits(helper) : Bit(byte, n) = Bit(prev, n)

\* C12: the byte a config helper commits keeps, in every bit its call does
\* not name, the value that bit had in the last committed byte; stated on
\* the helper calls made by power_on and power_off.
C12_BitsPersist ==
    [][(last'.op \in {"power_on", "power_off"}) =>
          LET c == Vals(Commits(trace'))
          IN  \A i \in 1..Len(c) :
                  KeepsOtherBits(IF i = 1 THEN hw.latch ELSE c[i - 1], c[i],
                                 HelpersOf(last'.op)[i])]_vars

\* the GPIO writes g[i..] applied to the lines l (with the rising clock
\* edges counted since the strobe was last written low): the data line
\* changes only while the clock is low, the clock changes only while the
\* strobe is low, and the strobe rises after exactly 8 rising clock edges
RECURSIVE LineDiscipline(_, _, _)
LineDiscipline(l, g, i) ==
    IF i > Len(g) THEN TRUE
    ELSE LET e == g[i]
         IN  IF e.pin = "cfg_data"
             THEN /\ (e.val # l.data) => l.clk = 0
                  /\ LineDiscipline([l EXCEPT !.data = e.val], g, i + 1)
             ELSE IF e.pin = "cfg_clk"
             THEN /\ (e.val # l.clk) => l.str = 0
                  /\ LineDiscipline(
                         [l EXCEPT !.clk = e.val,
                                   !.edges = IF l.clk = 0 /\ e.val = 1 THEN @ + 1 ELSE @],
                         g, i + 1)
             ELSE /\ (l.str = 0 /\ e.val = 1) => l.edges = 8
                  /\ LineDiscipline(
                         [l EXCEPT !.str = e.val,
                                   !.edges = IF e.val = 0 THEN 0 ELSE @],
                         g, i + 1)

LinesOf(h) == [data |-> h.cfg_data, clk |-> h.cfg_clk, str |-> h.cfg_str, edges |-> 0]

C25_NoPartialCommit ==
    [][/\ (last'.op \in {"earlier_write", "write_config_register"}
           /\ last'.res # "Ok") =>
              /\ last'.res = "Gpio"
              /\ Commits(trace') = <<>>
              /\ \A i \in 1..Len(trace') :
                     ~(trace'[i].pin = "cfg_str" /\ trace'[i].val = 1)
              /\ hw'.latch = hw.latch
       /\ (last.op = "earlier_write" /\ last.res # "Ok"
           /\ last'.op = "write_config_register") =>
              /\ last'.res = "Ok"
              /\ Commits(trace') = <<Ev("commit", "", last'.value)>>
              /\ hw'.latch = last'.value]_vars

\* a write of 0xA5 aborted at its last strobe write, over a committed 0xFF
C25_Witness ==
    /\ last.op = "earlier_write" /\ last.res = "Gpio"
    /\ last.value = 165 /\ last.latch0 = 255
    /\ hw.latch = 255 /\ hw.shift = 165

(* ===================== properties of the pulse channel ================= *)
\* a pulse call that waited and returned Ok
GoodWait(l) == l.op = "pulse" /\ l.res = "Ok" /\ l.wait

\* C13: the first pulse call after Rmt::new, when it succeeds, constructs
\* the channel; a successful pulse with wait = true leaves the channel in
\* tx_channel, and it constructs the channel once when the call before it
\* was not a successful wait = true pulse, and not at all when it was: a run
\* of consecutive successful wait = true pulses constructs exactly once.
C13_ChannelCached ==
    [][\A high \in Ticks, low \in Ticks, wait \in BOOLEAN, fail \in RmtFailures :
          Pulse(high, low, wait, fail) =>
              /\ (last.op = "new" /\ last'.res = "Ok") =>
                     Len(EventsOf(trace', "configure")) = 1
              /\ (wait /\ last'.res = "Ok") =>
                     /\ tx_channel' = "Some"
                     /\ Len(EventsOf(trace', "configure"))
                            = IF GoodWait(last) THEN 0 ELSE 1]_vars

\* a waiting pulse that found the channel in the slot and reused it
C13_Witness ==
    /\ GoodWait(last) /\ last.slot0 = "Some"
    /\ EventsOf(trace, "configure") = <<>>
    /\ EventsOf(trace, "transmit") # <<>>
    /\ tx_channel = "Some"

\* C14: tx_channel is empty exactly after Rmt::new, after a pulse with
\* wait = false that returned Ok, and after a pulse that failed; a pulse
\* call that finds it empty and gets to transmit has configured a new
\* channel, in ensure_channel, before the transmit.
C14_SlotEmptyAfter ==
    /\ (tx_channel = "None") <=>
           (last.op = "new" \/ (last.op = "pulse" /\ (last.res # "Ok" \/ ~last.wait)))
    /\ (last.op = "pulse" /\ last.slot0 = "None") =>
           \A j \in 1..Len(trace) :
               trace[j].ev = "transmit" =>
                   \E i \in 1..(j - 1) : trace[i].ev = "configure"

\* a non-waiting pulse issued after a non-waiting pulse whose transmission
\* was still running
C14_Witness ==
    /\ last.op = "pulse" /\ last.res = "Ok" /\ ~last.wait
    /\ last.slot0 = "None" /\ last.busy0
    /\ EventsOf(trace, "configure") # <<>>
    /\ tx_channel = "None"

\* C15: no pulse call sets up the peripheral, configures the channel or
\* starts a transmission while a transmission is running on the channel.
C15_OneInFlight ==
    \A i \in 1..Len(trace) :
        trace[i].ev \in {"new", "configure", "transmit"} => ~trace[i].busy

\* the hardware operation that fails in a call is reached by the call
FailureReached(l) ==
    \/ l.fail \in {"new", "configure"} /\ l.slot0 = "None"
    \/ l.fail = "transmit"
    \/ l.fail = "wait" /\ l.wait

\* C16: every transmit of a pulse call comes after a take, in the same
\* call, that found a channel in the slot; a take that finds the slot empty
\* makes the call return Unknown without a transmit (on the empty slot
\* itself, and in every call); a failure of Rmt::new, configure, transmit
\* or wait makes the call return the Rmt error, and a call without one
\* returns Ok.
C16_TransmitOwnsChannel ==
    /\ LET r == transmit(take_channel(RmtMachine("None", FALSE, "none")),
                         pulse_data(1, 1))
       IN  r.err = "Unknown" /\ EventsOf(r.trace, "transmit") = <<>> /\ ~r.busy
    /\ (last.op = "pulse") =>
           /\ \A j \in 1..Len(trace) :
                  trace[j].ev = "transmit" =>
                      \E i \in 1..(j - 1) :
                          trace[i].ev = "take" /\ trace[i].slot = "Some"
           /\ \A i \in 1..Len(trace) :
                  (trace[i].ev = "take" /\ trace[i].slot = "None") =>
                      (last.res = "Unknown" /\ EventsOf(trace, "transmit") = <<>>)
           /\ last.res = IF FailureReached(last) THEN "Rmt" ELSE "Ok"

\* a call whose transmit failed after it took the channel it had cached
C16_Witness ==
    /\ last.op = "pulse" /\ last.res = "Rmt" /\ last.fail = "transmit"
    /\ last.slot0 = "Some"
    /\ EventsOf(trace, "take") # <<>>
    /\ EventsOf(trace, "transmit") = <<>>
    /\ tx_channel = "None"

\* C27: a pulse call that returns an error leaves tx_channel empty; the
\* pulse call after it, when no hardware operation fails in it, finds the
\* slot empty, configures a channel once, transmits on it and returns Ok.
C27_FailedPulseRecovers ==
    [][/\ (last'.op = "pulse" /\ last'.res # "Ok") => tx_channel' = "None"
       /\ (last.op = "pulse" /\ last.res # "Ok"
           /\ last'.op = "pulse" /\ last'.fail = "none") =>
              /\ last'.slot0 = "None"
              /\ last'.res = "Ok"
              /\ Len(EventsOf(trace', "configure")) = 1
              /\ Len(EventsOf(trace', "transmit")) = 1
              /\ tx_channel' = IF last'.wait THEN "Some" ELSE "None"]_vars

\* a pulse whose wait failed after it transmitted on the cached channel
C27_Witness ==
    /\ last.op = "pulse" /\ last.res = "Rmt" /\ last.fail = "wait"
    /\ last.wait /\ last.slot0 = "Some"
    /\ EventsOf(trace, "transmit") # <<>>
    /\ tx_channel = "None"

\* the ticks a pulse code keeps the line at a level
TicksAt(code, level) ==
    (IF code.level1 = level THEN code.length1 ELSE 0)
        + (IF code.level2 = level THEN code.length2 ELSE 0)

\* C17: the program a pulse call transmits has two entries, the second
\* being the end marker; for high > 0 the first is high for `high` ticks
\* then low for `low` ticks; for high = 0 the first keeps the line low for
\* `low` ticks and high for none.
C17_PulseProgram ==
    \A i \in 1..Len(trace) :
        trace[i].ev = "transmit" =>
            LET data == trace[i].data
            IN  /\ Len(data) = 2
                /\ data[2] = PulseCodeEmpty
                /\ (last.high > 0) =>
                       data[1] = PulseCode(TRUE, last.high, FALSE, last.low)
                /\ (last.high = 0) =>
                       /\ TicksAt(data[1], TRUE) = 0
                       /\ TicksAt(data[1], FALSE) = last.low

(* ======================= properties of the framebuffer ================= *)
\* the level of the pixel with linear index y * WIDTH + x: the high nibble
\* of byte index / 2 when the index is even, the low nibble when it is odd
GetPixel(fb, x, y) ==
    LET index == y * DISPLAY_WIDTH + x
        byte  == fb[(index \div 2) + 1]
    IN  IF index % 2 = 0 THEN byte \div 16 ELSE byte % 16

\* C6: set_pixel of an in-bounds (x, y) with a level of 0..15 returns Ok;
\* afterwards the pixel reads that level and every other pixel of the
\* panel, the one in the same byte included, reads what it read before.
C6_SetPixelWrites ==
    (last.op = "set_pixel" /\ InPanel(last.x, last.y) /\ last.color <= 15) =>
        /\ last.res = "Ok"
        /\ Len(framebuffer) = Len(last.before)
        /\ GetPixel(framebuffer, last.x, last.y) = last.color
        /\ \A q \in Panel \ {<<last.x, last.y>>} :
               GetPixel(framebuffer, q[1], q[2]) = GetPixel(last.before, q[1], q[2])

\* level 5 written to the second pixel of the last row's first byte, whose
\* first pixel was painted and whose own level was white
C6_Witness ==
    /\ last.op = "set_pixel" /\ last.res = "Ok"
    /\ last.x = 1 /\ last.y = DISPLAY_HEIGHT - 1 /\ last.color = 5
    /\ GetPixel(last.before, 1, DISPLAY_HEIGHT - 1) = 15
    /\ GetPixel(last.before, 0, DISPLAY_HEIGHT - 1) = 5
    /\ GetPixel(framebuffer, 1, DISPLAY_HEIGHT - 1) = 5

\* C7: set_pixel of a coordinate with x >= WIDTH or y >= HEIGHT fails with
\* OutOfBounds whatever the level, valid or not, and leaves the framebuffer
\* as it was.
C7_OutOfBounds ==
    (last.op = "set_pixel" /\ ~InPanel(last.x, last.y)) =>
        /\ last.res = "OutOfBounds"
        /\ framebuffer = last.before

\* an out-of-bounds write with a level above 15, on a painted framebuffer
C7_Witness ==
    /\ last.op = "set_pixel" /\ last.res = "OutOfBounds"
    /\ last.x = DISPLAY_WIDTH /\ last.y = 0 /\ last.color > 15
    /\ framebuffer # WhiteBuffer

\* C8: set_pixel of an in-bounds coordinate with a level above 15 fails with
\* InvalidColor and leaves the framebuffer as it was.
C8_InvalidColor ==
    (last.op = "set_pixel" /\ InPanel(last.x, last.y) /\ last.color > 15) =>
        /\ last.res = "InvalidColor"
        /\ framebuffer = last.before

C8_Witness ==
    /\ last.op = "set_pixel" /\ last.res = "InvalidColor"
    /\ InPanel(last.x, last.y) /\ last.color = 16
    /\ framebuffer # WhiteBuffer

\* C9: clear returns Ok in either power state and on any framebuffer;
\* afterwards every pixel reads white (15), and the power state, the config
\* register and the length of the framebuffer are what they were.
C9_Clear ==
    [][Clear =>
          /\ last'.res = "Ok" /\ trace' = <<>>
          /\ \A q \in Panel : GetPixel(framebuffer', q[1], q[2]) = 15
          /\ Len(framebuffer') = Len(framebuffer)
          /\ powered_on' = powered_on /\ hw' = hw]_vars

\* clear called on a powered driver
C9_Witness ==
    /\ last.op = "clear" /\ last.wasOn /\ last.res = "Ok"
    /\ powered_on
    /\ framebuffer = WhiteBuffer

(* ======================= properties of the drawing bridge ============== *)
\* the framebuffer with the in-panel pixels of a stream written in order
RECURSIVE Drawn(_, _)
Drawn(fb, pixels) ==
    IF pixels = <<>> THEN fb
    ELSE LET p == Head(pixels)
         IN  Drawn(IF InPanel(p[1], p[2])
                   THEN set_pixel(Machine(FALSE, fb, hw, NoFail), p[1], p[2], p[3]).framebuffer
                   ELSE fb,
                   Tail(pixels))

\* C10: draw_iter of any pixel stream returns Ok and writes exactly the
\* in-panel pixels of the stream, those after an out-of-panel one included.
C10_DrawIterClips ==
    [][\A pixels \in Streams :
          DrawIter(pixels) =>
              /\ last'.res = "Ok"
              /\ framebuffer' = Drawn(framebuffer, pixels)]_vars

\* C26: Display::draw_iter returns Ok and changes exactly the pixels of the
\* stream items with 0 <= x < WIDTH and 0 <= y < HEIGHT, each at its own
\* (x, y); an item with a negative coordinate or one of 65536 or more
\* changes nothing.
C26_NoAliasing ==
    [][(last'.op = "display_draw_iter") =>
          /\ last'.res = "Ok"
          /\ framebuffer' = Drawn(framebuffer, last'.pixels)]_vars

(* ======================= properties of the message store =============== *)
\* the last n elements of a sequence (all of it when it is shorter)
LastOf(q, n) == SubSeq(q, IF Len(q) > n THEN Len(q) - n + 1 ELSE 1, Len(q))

\* C28: the store never holds more than max_messages messages, and it
\* holds exactly the most recent of the messages inserted since it was last
\* empty, in insertion order; after add_user_message the two most recent
\* insertions are the user message and then its response, and they are the
\* last two stored; after clear_messages the store is empty.
C28_MostRecentMessages ==
    /\ Len(messages) <= max_messages
    /\ messages = LastOf(trace, max_messages)
    /\ (last.op = "add_user_message") =>
           LET n == Len(messages)
           IN  /\ n >= 2
               /\ messages[n - 1].is_user /\ ~messages[n].is_user
               /\ messages[n].content = generate_ai_response(messages[n - 1].content)
               /\ <<messages[n - 1], messages[n]>> = LastOf(trace, 2)
    /\ (last.op = "clear_messages") => messages = <<>>

\* an add_user_message on a full store: two of the oldest were evicted
C28_Witness ==
    /\ last.op = "add_user_message"
    /\ Len(messages) = max_messages
    /\ Len(trace) >= max_messages + 2
    /\ messages[1] # trace[1]

(* ======================= properties of the grey conversion ============= *)
\* C29: for every RGB565 value the conversion returns, no product
\* component * 255 exceeds 8 bits, and r8, g8 and b8 are
\* floor(component * 255 / maximum), lie in 0..255, and are 255 for the
\* maximum component.
C29_ComponentsScaled ==
    (last.op = "rgb565_to_grayscale") =>
        /\ last.res = "Ok"
        /\ last.r * 255 <= 255 /\ last.g * 255 <= 255 /\ last.b * 255 <= 255
        /\ last.r8 = (last.r * 255) \div 31
        /\ last.g8 = (last.g * 255) \div 63
        /\ last.b8 = (last.b * 255) \div 31
        /\ {last.r8, last.g8, last.b8} \subseteq 0..255
        /\ (last.r = 31) => (last.r8 = 255)
        /\ (last.g = 63) => (last.g8 = 255)
        /\ (last.b = 31) => (last.b8 = 255)

====
